---- MODULE Spec2Model ----
(***************************************************************************)
(* Model of the crypto-spot trading assistant (src/index.js): the paper    *)
(* ledger, the bounded order log, the paper and live order routes, and the *)
(* range-accumulation strategy tick.  Each request handler and each tick   *)
(* is a task that advances from one await point to the next; everything    *)
(* between two awaits is one atomic step, as on the single-threaded event  *)
(* loop.                                                                   *)
(*                                                                         *)
(* JavaScript numbers are modelled as exact rationals <<n, d>> (d > 0, in  *)
(* lowest terms); NaN is <<0, 0>>.                                         *)
(***************************************************************************)
EXTENDS Integers, Sequences, FiniteSets, TLC

VARIABLES
    isPaper,              \* PAPER_TRADING === 'true'
    credsPresent,         \* COINBASE_API_KEY and COINBASE_API_SECRET are set
    stratEnvEnabled,      \* STRAT_ENABLED === 'true'
    sellEnabled,          \* STRAT_SELL_ENABLED === 'true'
    maxSellFrac,          \* STRAT_SELL_MAX_FRACTION
    revision,             \* which revision of placeLiveOrder is deployed
    stratOverrideEnabled, \* "null" | "true" | "false"
    virtualBtc,           \* paper ledger, base asset
    virtualUsd,           \* paper ledger, quote asset
    recentOrders,         \* the bounded order log
    lastBuyTimestamp,     \* cooldown state
    clock,                \* Date.now() / 1000, floored
    tasks,                \* in-flight handlers and ticks, one record per slot
    response,             \* what the operation that finished last answered and did
    started,              \* number of operations started so far
    history               \* every entry ever passed to recordOrder, in order

vars == <<isPaper, credsPresent, stratEnvEnabled, sellEnabled, maxSellFrac,
          revision,
          stratOverrideEnabled, virtualBtc, virtualUsd, recentOrders,
          lastBuyTimestamp, clock, tasks, response, started, history>>

config ==
    <<isPaper, credsPresent, stratEnvEnabled, sellEnabled, maxSellFrac,
      revision>>

----------------------------------------------------------------------------
(* Numbers *)

RECURSIVE GCD(_, _)
GCD(a, b) == IF b = 0 THEN a ELSE GCD(b, a % b)

Abs(n) == IF n < 0 THEN -n ELSE n

NaN == <<0, 0>>

isNaN(x) == x[2] = 0

\* n / d in lowest terms with a positive denominator; x / 0 and NaN are NaN.
Rat(n, d) ==
    IF d = 0 THEN NaN
    ELSE LET g == GCD(Abs(n), Abs(d))
             s == IF d < 0 THEN -1 ELSE 1
         IN  <<(s * n) \div g, (s * d) \div g>>

Num(n) == <<n, 1>>

RMul(x, y) ==
    IF isNaN(x) \/ isNaN(y) THEN NaN
    ELSE LET g1 == GCD(Abs(x[1]), y[2])
             g2 == GCD(Abs(y[1]), x[2])
         IN  Rat((x[1] \div g1) * (y[1] \div g2), (x[2] \div g2) * (y[2] \div g1))

RDiv(x, y) ==
    IF isNaN(x) \/ isNaN(y) \/ y[1] = 0 THEN NaN
    ELSE RMul(x, IF y[1] < 0 THEN <<-y[2], -y[1]>> ELSE <<y[2], y[1]>>)

RAdd(x, y) ==
    IF isNaN(x) \/ isNaN(y) THEN NaN
    ELSE LET g == GCD(x[2], y[2])
         IN  Rat(x[1] * (y[2] \div g) + y[1] * (x[2] \div g), (x[2] \div g) * y[2])

RNeg(x) == <<-x[1], x[2]>>

RSub(x, y) == RAdd(x, RNeg(y))

\* x < y and x <= y; every comparison with NaN is false.
RLt(x, y) ==
    /\ ~isNaN(x)
    /\ ~isNaN(y)
    /\ LET g == GCD(x[2], y[2])
       IN  x[1] * (y[2] \div g) < y[1] * (x[2] \div g)

RLe(x, y) ==
    /\ ~isNaN(x)
    /\ ~isNaN(y)
    /\ LET g == GCD(x[2], y[2])
       IN  x[1] * (y[2] \div g) <= y[1] * (x[2] \div g)

\* Math.min and Math.max: NaN if either argument is NaN.
RMin(x, y) == IF isNaN(x) \/ isNaN(y) THEN NaN ELSE IF RLe(x, y) THEN x ELSE y

RMax(x, y) == IF isNaN(x) \/ isNaN(y) THEN NaN ELSE IF RLe(x, y) THEN y ELSE x

FixedDigits == 1000000

\* ToFixed6 truncating instead of rounding.
ToFixed6Floor(x) ==
    IF isNaN(x) THEN NaN
    ELSE LET q == (Abs(x[1]) * FixedDigits) \div x[2]
         IN  Rat(IF x[1] < 0 THEN -q ELSE q, FixedDigits)

\* Number(x.toFixed(6)): x rounded to six decimals, halves away from zero.
ToFixed6(x) ==
    IF isNaN(x) THEN NaN
    ELSE LET a == Abs(x[1]) * FixedDigits
             q == (2 * a + x[2]) \div (2 * x[2])
         IN  Rat(IF x[1] < 0 THEN -q ELSE q, FixedDigits)

----------------------------------------------------------------------------
(* Configuration defaults *)

MaxTradeUsd == 500

LogCapacity == 50

BuyUsd == 5

CooldownSec == 1800

MinBandPct == 1

MaxBandPct == 5

TimerPeriodSec == 900

AtrMultiplier == Rat(12, 10)

MaxSellFrac == Rat(2, 10)

ExtraBandPct == Rat(5, 10)

MinVirtualBtc == Rat(1, 100000)

allowed == {"BTC-USD", "ETH-USD"}

StratSymbol == "BTC-USD"

\* String.prototype.toUpperCase on the strings the model sends.
ToUpperCase(s) ==
    CASE s = "btc-usd" -> "BTC-USD"
      [] s = "buy"     -> "BUY"
      [] s = "sell"    -> "SELL"
      [] s = "hold"    -> "HOLD"
      [] OTHER         -> s

----------------------------------------------------------------------------
(* Bounds and the explored environment *)

MaxOps == 1

MaxStrategyOps == 3

MaxAdvance == 1

MaxStrategyAdvance == 2

MaxLogOps == 52

MaxLiveOps == 3

MaxOverlapOps == 2

StartTime == 1700000000

TaskIds == {1, 2}

\* A request body field: <<>> when absent, <<v>> when present.
Pick(field, default) == IF field = <<>> THEN default ELSE field[1]

NoBody == [undefined |-> TRUE]

BodiesOf(products, sides, amounts) ==
    {[undefined |-> FALSE, product |-> p, side |-> s, usd |-> u] :
        p \in products, s \in sides, u \in amounts}

\* The whole input space, explored for few operations.
Full ==
    [slots       |-> TaskIds,
     maxOps      |-> MaxOps,
     maxAdvance  |-> MaxAdvance,
     paperBodies |-> {NoBody} \cup
                     BodiesOf({<<>>, <<"DOGE-USD">>},
                              {<<>>, <<"sell">>, <<"hold">>},
                              {<<>>, <<-5>>, <<100>>, <<700>>}),
     liveBodies  |-> {NoBody} \cup
                     BodiesOf({<<>>, <<"btc-usd">>, <<"DOGE-USD">>},
                              {<<>>, <<"sell">>, <<"hold">>},
                              {<<>>, <<-5>>, <<0>>, <<500>>, <<600>>}),
     toggles     |-> {<<>>, <<TRUE>>, <<FALSE>>},
     successes   |-> BOOLEAN,
     prices      |-> {45000, 50000},
     pastValues  |-> {Num(50000), Num(0), Num(-50000), NaN},
     atrValues   |-> {Num(1000), Num(5000)}]

\* One live order after another, each for one dollar more than the orders
\* recorded so far, until the log has been over capacity.
LogRun ==
    [slots       |-> {1},
     maxOps      |-> MaxLogOps,
     maxAdvance  |-> 0,
     paperBodies |-> {},
     liveBodies  |-> BodiesOf({<<>>}, {<<>>}, {<<Len(history) + 1>>}),
     toggles     |-> {},
     successes   |-> {TRUE},
     prices      |-> {50000},
     pastValues  |-> {},
     atrValues   |-> {}]

\* Live orders only, two at a time, while time passes.
Live ==
    [slots       |-> TaskIds,
     maxOps      |-> MaxLiveOps,
     maxAdvance  |-> MaxAdvance,
     paperBodies |-> {},
     liveBodies  |-> BodiesOf({<<>>}, {<<>>, <<"sell">>}, {<<>>}),
     toggles     |-> {},
     successes   |-> {TRUE},
     prices      |-> {50000},
     pastValues  |-> {},
     atrValues   |-> {}]

\* Ticks and manual paper orders, two in flight at a time, with candle
\* fetches that succeed.
Overlap ==
    [slots       |-> TaskIds,
     maxOps      |-> MaxOverlapOps,
     maxAdvance  |-> MaxAdvance,
     paperBodies |-> BodiesOf({<<>>}, {<<>>, <<"sell">>}, {<<100>>}),
     liveBodies  |-> {},
     toggles     |-> {},
     successes   |-> {TRUE},
     prices      |-> {32000, 64000},
     pastValues  |-> {Num(50000)},
     atrValues   |-> {Num(1000)}]

\* A narrow input space and one operation at a time, explored for longer
\* runs of ticks and orders.
Lean ==
    [slots       |-> {1},
     maxOps      |-> MaxStrategyOps,
     maxAdvance  |-> MaxStrategyAdvance,
     paperBodies |-> BodiesOf({<<>>}, {<<"sell">>}, {<<100>>}),
     liveBodies  |-> BodiesOf({<<>>}, {<<"sell">>}, {<<>>}),
     toggles     |-> {<<TRUE>>},
     successes   |-> {TRUE},
     prices      |-> {32000, 64000},
     pastValues  |-> {Num(50000)},
     atrValues   |-> {Num(1000)}]

----------------------------------------------------------------------------
(* Tasks *)

\* op numbers the operation; product, side, usd, current, past, atr, band,
\* lower, upper and nowSec are the handler's locals; status and error are the HTTP
\* answer; exec tells how the order execution inside the operation ended,
\* decision what a tick decided; calls are the network calls made so far;
\* risky tells whether the order asked for breaks a risk limit; token is the
\* bearer token of the brokerage request the operation sent.
NoToken == [nbf |-> 0, exp |-> 0, uri |-> <<>>, nonce |-> 0]

Idle ==
    [op |-> 0, kind |-> "none", pc |-> "idle", product |-> "", side |-> "",
     usd |-> Num(0), current |-> Num(0), past |-> Num(0), atr |-> Num(0),
     band |-> Num(0), lower |-> Num(0), upper |-> Num(0), nowSec |-> 0,
     status |-> 0, error |-> "",
     exec |-> "none", decision |-> "", calls |-> {}, risky |-> FALSE,
     token |-> NoToken]

\* Free with operations serialised: none starts while another is in flight.
FreeWhenAllIdle(t, E) ==
    /\ t \in E.slots
    /\ \A u \in E.slots : tasks[u].pc = "idle"
    /\ \A u \in E.slots : u < t => tasks[u].pc # "idle"

\* A new operation takes the lowest free slot.
Free(t, E) ==
    /\ t \in E.slots
    /\ tasks[t].pc = "idle"
    /\ \A u \in E.slots : u < t => tasks[u].pc # "idle"

\* Task t goes on as next, or, when next is finished, answers and frees its slot.
Settle(t, next) ==
    IF next.pc = "done"
    THEN tasks' = [tasks EXCEPT ![t] = Idle] /\ response' = next
    ELSE tasks' = [tasks EXCEPT ![t] = next] /\ UNCHANGED response

\* The record of a finished task: its answer, and what the tick saw.
Finished(task, status, error, exec, decision) ==
    [Idle EXCEPT !.op = task.op, !.kind = task.kind, !.pc = "done",
                 !.status = status, !.error = error, !.exec = exec,
                 !.decision = decision, !.calls = task.calls,
                 !.risky = task.risky, !.current = task.current,
                 !.past = task.past, !.atr = task.atr, !.band = task.band,
                 !.lower = task.lower, !.upper = task.upper,
                 !.nowSec = task.nowSec, !.token = task.token]

Begin(kind) == [Idle EXCEPT !.op = started + 1, !.kind = kind, !.pc = "start"]

\* The risk limits of an order: the pair is allow-listed, the amount is
\* positive and within the per-trade cap.
RiskViolation(product, usd) ==
    \/ ToUpperCase(product) \notin allowed
    \/ usd <= 0
    \/ usd > MaxTradeUsd

\* The environments the server is started in.  isPaper, credsPresent and
\* revision are read by the live-order route only, stratEnvEnabled and
\* sellEnabled by the tick only: every combination within each group occurs.
\* The sell fraction is the default 0.2, and 0 in the last environment.
Deployment(paper, creds, rev, strat, sell) ==
    [isPaper |-> paper, credsPresent |-> creds, revision |-> rev,
     stratEnvEnabled |-> strat, sellEnabled |-> sell,
     maxSellFrac |-> MaxSellFrac]

Deployments ==
    {Deployment(TRUE, FALSE, "index.js", FALSE, FALSE),
     Deployment(TRUE, TRUE, "part_000", TRUE, TRUE),
     Deployment(FALSE, TRUE, "index.js", TRUE, TRUE),
     Deployment(FALSE, FALSE, "index.js", TRUE, FALSE),
     Deployment(FALSE, TRUE, "part_000", FALSE, TRUE),
     [Deployment(FALSE, FALSE, "part_000", TRUE, TRUE)
         EXCEPT !.maxSellFrac = Num(0)]}

Init ==
    /\ \E d \in Deployments :
         /\ isPaper = d.isPaper
         /\ credsPresent = d.credsPresent
         /\ revision = d.revision
         /\ stratEnvEnabled = d.stratEnvEnabled
         /\ sellEnabled = d.sellEnabled
         /\ maxSellFrac = d.maxSellFrac
    /\ stratOverrideEnabled = "null"
    /\ virtualBtc = Num(0)
    /\ virtualUsd = Num(0)
    /\ recentOrders = <<>>
    /\ lastBuyTimestamp = 0
    /\ clock = StartTime
    /\ tasks = [t \in TaskIds |-> Idle]
    /\ response = Idle
    /\ started = 0
    /\ history = <<>>

----------------------------------------------------------------------------
(* Order log *)

\* recordOrder shifting one entry too early.
recordOrderEarlyShift(log, entry) ==
    LET pushed == Append(log, entry)
    IN  IF Len(pushed) >= LogCapacity THEN Tail(pushed) ELSE pushed

\* recordOrder: push, then shift when the log is over capacity.
recordOrder(log, entry) ==
    LET pushed == Append(log, entry)
    IN  IF Len(pushed) > LogCapacity THEN Tail(pushed) ELSE pushed

----------------------------------------------------------------------------
(* Paper orders *)

\* placePaperOrder selling the target quantity without the cap at the balance.
placePaperOrderUncapped(product, side, usd, price) ==
    IF side = "buy" THEN
        LET qty == ToFixed6(RDiv(usd, price))
        IN  [threw |-> FALSE, btc |-> RAdd(virtualBtc, qty),
             usdBal |-> RSub(virtualUsd, usd), qty |-> qty]
    ELSE IF side = "sell" THEN
        LET qty == RDiv(usd, price)
        IN  [threw |-> FALSE, btc |-> RSub(virtualBtc, qty),
             usdBal |-> RAdd(virtualUsd, RMul(qty, price)), qty |-> qty]
    ELSE [threw |-> TRUE, btc |-> virtualBtc, usdBal |-> virtualUsd,
          qty |-> Num(0)]

\* placePaperOrder after its ticker fetch returned price: the new balances
\* and the recorded entry, or threw for a side that is neither buy nor sell.
placePaperOrder(product, side, usd, price) ==
    IF side = "buy" THEN
        LET qty == ToFixed6(RDiv(usd, price))
        IN  [threw |-> FALSE, btc |-> RAdd(virtualBtc, qty),
             usdBal |-> RSub(virtualUsd, usd), qty |-> qty]
    ELSE IF side = "sell" THEN
        LET targetQty == RDiv(usd, price)
            qty == RMin(targetQty, virtualBtc)
        IN  [threw |-> FALSE, btc |-> RSub(virtualBtc, qty),
             usdBal |-> RAdd(virtualUsd, RMul(qty, price)), qty |-> qty]
    ELSE [threw |-> TRUE, btc |-> virtualBtc, usdBal |-> virtualUsd,
          qty |-> Num(0)]

PaperEntry(product, side, usd, price, qty) ==
    [mode |-> "paper", product |-> product, side |-> side, usd |-> usd,
     price |-> price, qty |-> qty, time |-> clock]

\* PaperFill recording the order without booking it on the ledger.
PaperFillLogOnly(t, price, r) ==
    IF r.threw
    THEN UNCHANGED <<virtualBtc, virtualUsd, recentOrders, history>>
    ELSE LET e == PaperEntry(tasks[t].product, tasks[t].side, tasks[t].usd,
                             price, r.qty)
         IN  /\ UNCHANGED <<virtualBtc, virtualUsd>>
             /\ recentOrders' = recordOrder(recentOrders, e)
             /\ history' = Append(history, e)

\* The synchronous tail of placePaperOrder for task t: mutate the ledger and
\* record the order, or throw and change nothing.
PaperFill(t, price, r) ==
    IF r.threw
    THEN UNCHANGED <<virtualBtc, virtualUsd, recentOrders, history>>
    ELSE LET e == PaperEntry(tasks[t].product, tasks[t].side, tasks[t].usd,
                             price, r.qty)
         IN  /\ virtualBtc' = r.btc
             /\ virtualUsd' = r.usdBal
             /\ recentOrders' = recordOrder(recentOrders, e)
             /\ history' = Append(history, e)

\* POST /api/paper-order up to the ticker fetch inside placePaperOrder.
PaperOrderRoute(t, body, E) ==
    /\ Free(t, E)
    /\ started < E.maxOps
    /\ started' = started + 1
    /\ IF body.undefined
       THEN Settle(t,
                Finished(Begin("paper"), 500, "exception", "none", ""))
       ELSE Settle(t,
                [Begin("paper") EXCEPT
                    !.pc = "paper_ticker",
                    !.product = Pick(body.product, "BTC-USD"),
                    !.side = Pick(body.side, "buy"),
                    !.usd = Num(Pick(body.usd, 5)),
                    !.risky = RiskViolation(Pick(body.product, "BTC-USD"),
                                            Pick(body.usd, 5)),
                    !.calls = {"ticker"}])
    /\ UNCHANGED <<config, stratOverrideEnabled, virtualBtc, virtualUsd,
                   recentOrders, lastBuyTimestamp, clock, history>>

\* The ticker fetch of a manual paper order fails: the route answers 500.
PaperTickerFail(t) ==
    /\ tasks[t].pc = "paper_ticker"
    /\ Settle(t,
            Finished(tasks[t], 500, "ticker failed", "failed", ""))
    /\ UNCHANGED <<config, stratOverrideEnabled, virtualBtc, virtualUsd,
                   recentOrders, lastBuyTimestamp, clock, started, history>>

\* The ticker fetch of a manual paper order returns: fill and answer.
PaperTickerOk(t, E) ==
    /\ tasks[t].pc = "paper_ticker"
    /\ \E p \in E.prices :
         LET r == placePaperOrder(tasks[t].product, tasks[t].side,
                                  tasks[t].usd, Num(p))
         IN  /\ PaperFill(t, Num(p), r)
             /\ Settle(t,
                    IF r.threw
                    THEN Finished(tasks[t], 500, "bad side", "failed", "")
                    ELSE Finished(tasks[t], 200, "", "ok", ""))
    /\ UNCHANGED <<config, stratOverrideEnabled, lastBuyTimestamp, clock,
                   started>>

----------------------------------------------------------------------------
(* Live orders *)

LiveEntry(product, side, usd, success) ==
    [mode |-> "live", product |-> product, side |-> side, usd |-> usd,
     success |-> success, time |-> clock]

TokenTtlSec == 120

OrdersPath == "/api/v3/brokerage/orders"

\* buildCoinbaseJwt with key material present: the claims of the token it
\* signs.  The header's nonce, 16 random bytes, is a value no other call
\* draws: the number of the operation that makes the call.
buildCoinbaseJwt(method, path, nonce) ==
    [nbf |-> clock, exp |-> clock + TokenTtlSec,
     uri |-> <<ToUpperCase(method), "api.coinbase.com", path>>,
     nonce |-> nonce]

\* coinbaseRequest sending the token of the request answered last, when
\* there is one, instead of building its own.
coinbaseRequestCachedToken(task) ==
    IF ~credsPresent
    THEN Finished(task, 500, "Missing Coinbase API credentials", "failed", "")
    ELSE [task EXCEPT !.pc = "live_brokerage",
                      !.calls = @ \cup {"brokerage"},
                      !.token = IF response.token # NoToken
                                THEN response.token
                                ELSE buildCoinbaseJwt("POST", OrdersPath,
                                                      task.op)]

\* coinbaseRequest up to its fetch: buildCoinbaseJwt throws without key
\* material, before anything is sent; with it, the request goes out with
\* the token just built.
coinbaseRequest(task) ==
    IF ~credsPresent
    THEN Finished(task, 500, "Missing Coinbase API credentials", "failed", "")
    ELSE [task EXCEPT !.pc = "live_brokerage",
                      !.calls = @ \cup {"brokerage"},
                      !.token = buildCoinbaseJwt("POST", OrdersPath, task.op)]

\* placeLiveOrder up to its first await.  index.js sends quote_size for
\* every side; part_000 prices a SELL through the ticker first and rejects
\* any other side.
placeLiveOrder(task) ==
    IF revision = "index.js" THEN coinbaseRequest(task)
    ELSE IF ToUpperCase(task.side) = "BUY" THEN coinbaseRequest(task)
    ELSE IF ToUpperCase(task.side) = "SELL"
         THEN [task EXCEPT !.pc = "live_ticker", !.calls = @ \cup {"ticker"}]
    ELSE Finished(task, 500, "Unsupported side", "failed", "")

\* LiveRouteError without the paper-mode guard.
LiveRouteErrorNoModeCheck(body) ==
    IF body.undefined THEN "exception"
    ELSE IF Pick(body.usd, 5) <= 0 THEN "usd must be > 0"
    ELSE IF Pick(body.usd, 5) > MaxTradeUsd THEN "usd exceeds MAX_TRADE_USD"
    ELSE IF ToUpperCase(Pick(body.product, "BTC-USD")) \notin allowed
         THEN "symbol not allowed"
    ELSE ""

\* LiveRouteError with the amount check off by one: a zero amount passes.
LiveRouteErrorStrict(body) ==
    IF isPaper THEN "paper mode enabled"
    ELSE IF body.undefined THEN "exception"
    ELSE IF Pick(body.usd, 5) < 0 THEN "usd must be > 0"
    ELSE IF Pick(body.usd, 5) > MaxTradeUsd THEN "usd exceeds MAX_TRADE_USD"
    ELSE IF ToUpperCase(Pick(body.product, "BTC-USD")) \notin allowed
         THEN "symbol not allowed"
    ELSE ""

\* The checks of POST /api/live-order, in the order the route makes them:
\* the error it answers with, or "" when the order goes on to placeLiveOrder.
LiveRouteError(body) ==
    IF isPaper THEN "paper mode enabled"
    ELSE IF body.undefined THEN "exception"
    ELSE IF Pick(body.usd, 5) <= 0 THEN "usd must be > 0"
    ELSE IF Pick(body.usd, 5) > MaxTradeUsd THEN "usd exceeds MAX_TRADE_USD"
    ELSE IF ToUpperCase(Pick(body.product, "BTC-USD")) \notin allowed
         THEN "symbol not allowed"
    ELSE ""

\* POST /api/live-order up to the first await of placeLiveOrder.
LiveOrderRoute(t, body, E) ==
    /\ Free(t, E)
    /\ started < E.maxOps
    /\ started' = started + 1
    /\ LET err == LiveRouteError(body)
           req == IF body.undefined THEN Begin("live")
                  ELSE [Begin("live") EXCEPT
                           !.product = Pick(body.product, "BTC-USD"),
                           !.side = Pick(body.side, "BUY"),
                           !.usd = Num(Pick(body.usd, 5)),
                           !.risky = RiskViolation(
                                        Pick(body.product, "BTC-USD"),
                                        Pick(body.usd, 5))]
       IN  Settle(t,
              IF err = "exception" THEN Finished(req, 500, err, "none", "")
              ELSE IF err # "" THEN Finished(req, 400, err, "none", "")
              ELSE placeLiveOrder(req))
    /\ UNCHANGED <<config, stratOverrideEnabled, virtualBtc, virtualUsd,
                   recentOrders, lastBuyTimestamp, clock, history>>

\* part_000: the ticker fetch of a live SELL fails.
LiveTickerFail(t) ==
    /\ tasks[t].pc = "live_ticker"
    /\ Settle(t,
            Finished(tasks[t], 500, "ticker failed", "failed", ""))
    /\ UNCHANGED <<config, stratOverrideEnabled, virtualBtc, virtualUsd,
                   recentOrders, lastBuyTimestamp, clock, started, history>>

\* part_000: the ticker fetch of a live SELL returns; base_size is computed
\* and the request goes on to coinbaseRequest.
LiveTickerOk(t, E) ==
    /\ tasks[t].pc = "live_ticker"
    /\ \E p \in E.prices :
         Settle(t, coinbaseRequest(tasks[t]))
    /\ UNCHANGED <<config, stratOverrideEnabled, virtualBtc, virtualUsd,
                   recentOrders, lastBuyTimestamp, clock, started, history>>

\* BrokerageFail with the order recorded before the response is examined.
BrokerageFailRecorded(t) ==
    /\ tasks[t].pc = "live_brokerage"
    /\ LET e == LiveEntry(tasks[t].product, tasks[t].side, tasks[t].usd, FALSE)
       IN  /\ recentOrders' = recordOrder(recentOrders, e)
           /\ history' = Append(history, e)
    /\ Settle(t,
            Finished(tasks[t], 500, "Coinbase error", "failed", ""))
    /\ UNCHANGED <<config, stratOverrideEnabled, virtualBtc, virtualUsd,
                   lastBuyTimestamp, clock, started>>

\* The brokerage call fails (network error or non-2xx): coinbaseRequest throws.
BrokerageFail(t) ==
    /\ tasks[t].pc = "live_brokerage"
    /\ Settle(t,
            Finished(tasks[t], 500, "Coinbase error", "failed", ""))
    /\ UNCHANGED <<config, stratOverrideEnabled, virtualBtc, virtualUsd,
                   recentOrders, lastBuyTimestamp, clock, started, history>>

\* BrokerageOk that also books the order on the paper ledger.
BrokerageOkDebits(t, E) ==
    /\ tasks[t].pc = "live_brokerage"
    /\ \E success \in E.successes :
         LET e == LiveEntry(tasks[t].product, tasks[t].side, tasks[t].usd,
                            success)
         IN  /\ recentOrders' = recordOrder(recentOrders, e)
             /\ history' = Append(history, e)
    /\ virtualUsd' = RSub(virtualUsd, tasks[t].usd)
    /\ Settle(t,
            Finished(tasks[t], 200, "", "ok", ""))
    /\ UNCHANGED <<config, stratOverrideEnabled, virtualBtc,
                   lastBuyTimestamp, clock, started>>

\* The side placeLiveOrder records: as given (index.js), upper-cased (part_000).
LiveRecordedSide(side) ==
    IF revision = "index.js" THEN side ELSE ToUpperCase(side)

\* The brokerage answers 2xx: placeLiveOrder records the order and returns.
BrokerageOk(t, E) ==
    /\ tasks[t].pc = "live_brokerage"
    /\ \E success \in E.successes :
         LET e == LiveEntry(tasks[t].product, LiveRecordedSide(tasks[t].side),
                            tasks[t].usd, success)
         IN  /\ recentOrders' = recordOrder(recentOrders, e)
             /\ history' = Append(history, e)
    /\ Settle(t,
            Finished(tasks[t], 200, "", "ok", ""))
    /\ UNCHANGED <<config, stratOverrideEnabled, virtualBtc, virtualUsd,
                   lastBuyTimestamp, clock, started>>

----------------------------------------------------------------------------
(* Strategy *)

\* stratIsEnabled reading the environment only.
stratIsEnabledEnvOnly == stratEnvEnabled

\* The flag strategyTick resolves before anything else.
stratIsEnabled ==
    IF stratOverrideEnabled # "null" THEN stratOverrideEnabled = "true"
    ELSE stratEnvEnabled

\* GET /api/status: the strategyEnabled field of the answer.
statusStrategyEnabled ==
    IF stratOverrideEnabled # "null" THEN stratOverrideEnabled = "true"
    ELSE stratEnvEnabled

\* POST /api/strategy/enabled: Boolean(enabled), false for a missing field.
SetStrategyEnabled(enabled, E) ==
    /\ started < E.maxOps
    /\ started' = started + 1
    /\ stratOverrideEnabled' = IF Pick(enabled, FALSE) THEN "true" ELSE "false"
    /\ stratOverrideEnabled' # stratOverrideEnabled
    /\ UNCHANGED <<config, virtualBtc, virtualUsd, recentOrders,
                   lastBuyTimestamp, clock, tasks, response, history>>

\* strategyTick, from the timer or POST /api/strategy/tick, up to its first
\* await.
StrategyTick(t, E) ==
    /\ Free(t, E)
    /\ started < E.maxOps
    /\ started' = started + 1
    /\ Settle(t,
          IF ~stratIsEnabled
          THEN Finished(Begin("tick"), 200, "", "none", "disabled")
          ELSE [Begin("tick") EXCEPT !.pc = "tick_ticker",
                                     !.product = StratSymbol,
                                     !.calls = {"ticker"}])
    /\ UNCHANGED <<config, stratOverrideEnabled, virtualBtc, virtualUsd,
                   recentOrders, lastBuyTimestamp, clock, history>>

\* TickCaught without the catch: the failure reaches the caller.
TickCaughtRethrows(task, exec) == Finished(task, 500, "exception", exec, "error")

\* Any await of the tick that throws lands in its catch block.
TickCaught(task, exec) == Finished(task, 200, "", exec, "error")

TickTickerFail(t) ==
    /\ tasks[t].pc = "tick_ticker"
    /\ Settle(t, TickCaught(tasks[t], "none"))
    /\ UNCHANGED <<config, stratOverrideEnabled, virtualBtc, virtualUsd,
                   recentOrders, lastBuyTimestamp, clock, started, history>>

TickTickerOk(t, E) ==
    /\ tasks[t].pc = "tick_ticker"
    /\ \E p \in E.prices :
         Settle(t,
            [tasks[t] EXCEPT !.pc = "tick_hist", !.current = Num(p),
                      !.calls = @ \cup {"candles"}])
    /\ UNCHANGED <<config, stratOverrideEnabled, virtualBtc, virtualUsd,
                   recentOrders, lastBuyTimestamp, clock, started, history>>

\* The validity check on the reference price: !past || isNaN(past).
BadPast(past) == past = Num(0) \/ isNaN(past)

\* After getHistoricPrice returned past: abort, or go on to getATR.
AfterHistoric(task, past) ==
    IF BadPast(past) THEN Finished(task, 200, "", "none", "bad_past")
    ELSE [task EXCEPT !.pc = "tick_atr", !.past = past]

\* getHistoricPrice: the candle fetch returns an average of closes.
TickHistoricOk(t, E) ==
    /\ tasks[t].pc = "tick_hist"
    /\ \E past \in E.pastValues :
         Settle(t, AfterHistoric(tasks[t], past))
    /\ UNCHANGED <<config, stratOverrideEnabled, virtualBtc, virtualUsd,
                   recentOrders, lastBuyTimestamp, clock, started, history>>

\* getHistoricPrice: the candle fetch fails; fall back to the ticker.
TickHistoricFail(t) ==
    /\ tasks[t].pc = "tick_hist"
    /\ Settle(t, [tasks[t] EXCEPT !.pc = "tick_hist_fallback"])
    /\ UNCHANGED <<config, stratOverrideEnabled, virtualBtc, virtualUsd,
                   recentOrders, lastBuyTimestamp, clock, started, history>>

TickFallbackFail(t) ==
    /\ tasks[t].pc = "tick_hist_fallback"
    /\ Settle(t, TickCaught(tasks[t], "none"))
    /\ UNCHANGED <<config, stratOverrideEnabled, virtualBtc, virtualUsd,
                   recentOrders, lastBuyTimestamp, clock, started, history>>

TickFallbackOk(t, E) ==
    /\ tasks[t].pc = "tick_hist_fallback"
    /\ \E p \in E.prices :
         Settle(t, AfterHistoric(tasks[t], Num(p)))
    /\ UNCHANGED <<config, stratOverrideEnabled, virtualBtc, virtualUsd,
                   recentOrders, lastBuyTimestamp, clock, started, history>>

\* Clamp without the lower end.
ClampUpperOnly(x, lo, hi) == RMin(hi, x)

Clamp(x, lo, hi) == RMax(lo, RMin(hi, x))

bandPct(past, atr) ==
    Clamp(RMul(RMul(RDiv(atr, past), Num(100)), AtrMultiplier),
          Num(MinBandPct), Num(MaxBandPct))

\* lower with the band taken as a fraction instead of a percentage.
lowerNoPercent(past, atr) ==
    RMul(past, RSub(Num(1), bandPct(past, atr)))

lower(past, atr) ==
    RMul(past, RSub(Num(1), RDiv(bandPct(past, atr), Num(100))))

upper(past, atr) ==
    RMul(past, RAdd(Num(1), RDiv(bandPct(past, atr), Num(100))))

SellThreshold(past, atr) ==
    RMul(upper(past, atr), RAdd(Num(1), RDiv(ExtraBandPct, Num(100))))

\* InCooldown with the window closed at its end.
InCooldownInclusive(nowSec) == nowSec - lastBuyTimestamp <= CooldownSec

\* The cooldown check of the buy rule.
InCooldown(nowSec) == nowSec - lastBuyTimestamp < CooldownSec

\* Decide with the sell rule not looking at the sell-enabled flag.
DecideIgnoresSellFlag(task, atr) ==
    LET seen == [task EXCEPT !.atr = atr,
                             !.band = bandPct(task.past, atr),
                             !.lower = lower(task.past, atr),
                             !.upper = upper(task.past, atr),
                             !.nowSec = clock]
    IN  IF RLe(task.current, lower(task.past, atr)) THEN
            IF InCooldown(clock)
            THEN Finished(seen, 200, "", "none", "cooldown")
            ELSE [seen EXCEPT !.pc = "tick_buy", !.side = "buy",
                              !.usd = Num(BuyUsd)]
        ELSE IF /\ RLt(MinVirtualBtc, virtualBtc)
                /\ RLe(SellThreshold(task.past, atr), task.current)
        THEN [seen EXCEPT !.pc = "tick_sell", !.side = "sell",
                          !.usd = RMul(RMul(virtualBtc, maxSellFrac),
                                       task.current)]
        ELSE Finished(seen, 200, "", "none", "no_action")

\* The decision of the tick once the ATR is known, up to the await of
\* placePaperOrder: the buy rule first, the sell rule only if it did not fire.
Decide(task, atr) ==
    LET seen == [task EXCEPT !.atr = atr,
                             !.band = bandPct(task.past, atr),
                             !.lower = lower(task.past, atr),
                             !.upper = upper(task.past, atr),
                             !.nowSec = clock]
    IN  IF RLe(task.current, lower(task.past, atr)) THEN
            IF InCooldown(clock)
            THEN Finished(seen, 200, "", "none", "cooldown")
            ELSE [seen EXCEPT !.pc = "tick_buy", !.side = "buy",
                              !.usd = Num(BuyUsd)]
        ELSE IF /\ sellEnabled
                /\ RLt(MinVirtualBtc, virtualBtc)
                /\ RLe(SellThreshold(task.past, atr), task.current)
        THEN [seen EXCEPT !.pc = "tick_sell", !.side = "sell",
                          !.usd = RMul(RMul(virtualBtc, maxSellFrac),
                                       task.current)]
        ELSE Finished(seen, 200, "", "none", "no_action")

\* TickAtrFail with getATR letting its failure through to the tick.
TickAtrFailThrows(t) ==
    /\ tasks[t].pc = "tick_atr"
    /\ Settle(t, TickCaught(tasks[t], "none"))
    /\ UNCHANGED <<config, stratOverrideEnabled, virtualBtc, virtualUsd,
                   recentOrders, lastBuyTimestamp, clock, started, history>>

\* getATR fails (its fetch or its parse throws, or there are fewer than
\* hours + 1 candles): its catch block returns 0 and the tick decides.
TickAtrFail(t) ==
    /\ tasks[t].pc = "tick_atr"
    /\ Settle(t, Decide(tasks[t], Num(0)))
    /\ UNCHANGED <<config, stratOverrideEnabled, virtualBtc, virtualUsd,
                   recentOrders, lastBuyTimestamp, clock, started, history>>

\* getATR returns the mean true range of its candles.
TickAtr(t, E) ==
    /\ tasks[t].pc = "tick_atr"
    /\ \E atr \in E.atrValues :
         Settle(t, Decide(tasks[t], atr))
    /\ UNCHANGED <<config, stratOverrideEnabled, virtualBtc, virtualUsd,
                   recentOrders, lastBuyTimestamp, clock, started, history>>

\* The ticker fetch inside the tick's placePaperOrder fails: caught.
TickOrderFail(t) ==
    /\ tasks[t].pc \in {"tick_buy", "tick_sell"}
    /\ Settle(t, TickCaught(tasks[t], "failed"))
    /\ UNCHANGED <<config, stratOverrideEnabled, virtualBtc, virtualUsd,
                   recentOrders, lastBuyTimestamp, clock, started, history>>

\* TickOrderOk that never stamps the cooldown.
TickOrderOkNoStamp(t, E) ==
    /\ tasks[t].pc \in {"tick_buy", "tick_sell"}
    /\ \E p \in E.prices :
         PaperFill(t, Num(p),
                   placePaperOrder(tasks[t].product, tasks[t].side,
                                   tasks[t].usd, Num(p)))
    /\ Settle(t,
          Finished(tasks[t], 200, "", "ok",
                   IF tasks[t].pc = "tick_buy" THEN "buy" ELSE "sell"))
    /\ UNCHANGED <<config, stratOverrideEnabled, lastBuyTimestamp, clock,
                   started>>

\* TickOrderOk without the return after the buy: the tick goes on to the
\* sell rule.
TickOrderOkThenSell(t, E) ==
    /\ tasks[t].pc \in {"tick_buy", "tick_sell"}
    /\ \E p \in E.prices :
         PaperFill(t, Num(p),
                   placePaperOrder(tasks[t].product, tasks[t].side,
                                   tasks[t].usd, Num(p)))
    /\ lastBuyTimestamp' =
          IF tasks[t].pc = "tick_buy" THEN tasks[t].nowSec
          ELSE lastBuyTimestamp
    /\ Settle(t,
          IF tasks[t].pc = "tick_buy"
          THEN [tasks[t] EXCEPT !.pc = "tick_sell", !.side = "sell"]
          ELSE Finished(tasks[t], 200, "", "ok", "sell"))
    /\ UNCHANGED <<config, stratOverrideEnabled, clock, started>>

\* TickOrderOk sending the order to the brokerage when paper mode is off.
TickOrderOkLiveUnlessPaper(t, E) ==
    /\ tasks[t].pc \in {"tick_buy", "tick_sell"}
    /\ IF isPaper \/ ~credsPresent
       THEN \E p \in E.prices :
               PaperFill(t, Num(p),
                         placePaperOrder(tasks[t].product, tasks[t].side,
                                         tasks[t].usd, Num(p)))
       ELSE LET e == LiveEntry(tasks[t].product, tasks[t].side, tasks[t].usd,
                               TRUE)
            IN  /\ recentOrders' = recordOrder(recentOrders, e)
                /\ history' = Append(history, e)
                /\ UNCHANGED <<virtualBtc, virtualUsd>>
    /\ lastBuyTimestamp' =
          IF tasks[t].pc = "tick_buy" THEN tasks[t].nowSec
          ELSE lastBuyTimestamp
    /\ Settle(t,
          Finished(IF isPaper \/ ~credsPresent THEN tasks[t]
                   ELSE coinbaseRequest(tasks[t]),
                   200, "", "ok",
                   IF tasks[t].pc = "tick_buy" THEN "buy" ELSE "sell"))
    /\ UNCHANGED <<config, stratOverrideEnabled, clock, started>>

\* The ticker fetch inside the tick's placePaperOrder returns: the order is
\* filled, and a buy then stamps the cooldown with the tick's nowSec.
TickOrderOk(t, E) ==
    /\ tasks[t].pc \in {"tick_buy", "tick_sell"}
    /\ \E p \in E.prices :
         PaperFill(t, Num(p),
                   placePaperOrder(tasks[t].product, tasks[t].side,
                                   tasks[t].usd, Num(p)))
    /\ lastBuyTimestamp' =
          IF tasks[t].pc = "tick_buy" THEN tasks[t].nowSec
          ELSE lastBuyTimestamp
    /\ Settle(t,
          Finished(tasks[t], 200, "", "ok",
                   IF tasks[t].pc = "tick_buy" THEN "buy" ELSE "sell"))
    /\ UNCHANGED <<config, stratOverrideEnabled, clock, started>>

----------------------------------------------------------------------------
(* Time *)

Advance(E) ==
    /\ clock < StartTime + E.maxAdvance * TimerPeriodSec
    /\ clock' = clock + TimerPeriodSec
    /\ UNCHANGED <<config, stratOverrideEnabled, virtualBtc, virtualUsd,
                   recentOrders, lastBuyTimestamp, tasks, response, started,
                   history>>

----------------------------------------------------------------------------
(* Specifications *)

Step(E) ==
    \/ \E t \in TaskIds, body \in E.paperBodies : PaperOrderRoute(t, body, E)
    \/ \E t \in TaskIds : PaperTickerFail(t)
    \/ \E t \in TaskIds : PaperTickerOk(t, E)
    \/ \E t \in TaskIds, body \in E.liveBodies : LiveOrderRoute(t, body, E)
    \/ \E t \in TaskIds : LiveTickerFail(t)
    \/ \E t \in TaskIds : LiveTickerOk(t, E)
    \/ \E t \in TaskIds : BrokerageFail(t)
    \/ \E t \in TaskIds : BrokerageOk(t, E)
    \/ \E enabled \in E.toggles : SetStrategyEnabled(enabled, E)
    \/ \E t \in TaskIds : StrategyTick(t, E)
    \/ \E t \in TaskIds : TickTickerFail(t)
    \/ \E t \in TaskIds : TickTickerOk(t, E)
    \/ \E t \in TaskIds : TickHistoricOk(t, E)
    \/ \E t \in TaskIds : TickHistoricFail(t)
    \/ \E t \in TaskIds : TickFallbackFail(t)
    \/ \E t \in TaskIds : TickFallbackOk(t, E)
    \/ \E t \in TaskIds : TickAtr(t, E)
    \/ \E t \in TaskIds : TickAtrFail(t)
    \/ \E t \in TaskIds : TickOrderFail(t)
    \/ \E t \in TaskIds : TickOrderOk(t, E)
    \/ Advance(E)

Next == Step(Full)

Spec == Init /\ [][Next]_vars

(* The strategy runs: the timer's tick, the runtime switch and the paper     *)
(* order route that fills the ledger the tick sells from.  The live order   *)
(* route shares no state with the tick beyond the order log and is explored *)
(* by Next and NextLog.                                                     *)
NextStrategy ==
    \/ \E t \in TaskIds, body \in Lean.paperBodies :
          PaperOrderRoute(t, body, Lean)
    \/ \E t \in TaskIds : PaperTickerFail(t)
    \/ \E t \in TaskIds : PaperTickerOk(t, Lean)
    \/ \E enabled \in Lean.toggles : SetStrategyEnabled(enabled, Lean)
    \/ \E t \in TaskIds : StrategyTick(t, Lean)
    \/ \E t \in TaskIds : TickTickerFail(t)
    \/ \E t \in TaskIds : TickTickerOk(t, Lean)
    \/ \E t \in TaskIds : TickHistoricOk(t, Lean)
    \/ \E t \in TaskIds : TickHistoricFail(t)
    \/ \E t \in TaskIds : TickFallbackFail(t)
    \/ \E t \in TaskIds : TickFallbackOk(t, Lean)
    \/ \E t \in TaskIds : TickAtr(t, Lean)
    \/ \E t \in TaskIds : TickOrderFail(t)
    \/ \E t \in TaskIds : TickOrderOk(t, Lean)
    \/ Advance(Lean)

(* One deployment per strategy configuration: strategy off, buy only, buy   *)
(* and sell, and buy and sell with a zero sell fraction.  The deployments   *)
(* left out differ from these only in what the live order route reads.      *)
InitStrategy ==
    /\ Init
    /\ revision = "index.js" \/ maxSellFrac = Num(0)

SpecStrategy == InitStrategy /\ [][NextStrategy]_vars

NextLog ==
    \/ \E t \in TaskIds, body \in LogRun.liveBodies :
          LiveOrderRoute(t, body, LogRun)
    \/ \E t \in TaskIds : BrokerageFail(t)
    \/ \E t \in TaskIds : BrokerageOk(t, LogRun)

SpecLog == Init /\ [][NextLog]_vars

(* The live order route alone, with overlapping requests and passing time. *)
NextLive ==
    \/ \E t \in TaskIds, body \in Live.liveBodies :
          LiveOrderRoute(t, body, Live)
    \/ \E t \in TaskIds : LiveTickerFail(t)
    \/ \E t \in TaskIds : LiveTickerOk(t, Live)
    \/ \E t \in TaskIds : BrokerageFail(t)
    \/ \E t \in TaskIds : BrokerageOk(t, Live)
    \/ Advance(Live)

SpecLive == Init /\ [][NextLive]_vars

(* Overlapping operations on the ledger and the cooldown: a timer tick, a   *)
(* manual tick and manual paper orders, two in flight at a time.            *)
NextOverlap ==
    \/ \E t \in TaskIds, body \in Overlap.paperBodies :
          PaperOrderRoute(t, body, Overlap)
    \/ \E t \in TaskIds : PaperTickerFail(t)
    \/ \E t \in TaskIds : PaperTickerOk(t, Overlap)
    \/ \E t \in TaskIds : StrategyTick(t, Overlap)
    \/ \E t \in TaskIds : TickTickerFail(t)
    \/ \E t \in TaskIds : TickTickerOk(t, Overlap)
    \/ \E t \in TaskIds : TickHistoricOk(t, Overlap)
    \/ \E t \in TaskIds : TickAtr(t, Overlap)
    \/ \E t \in TaskIds : TickOrderFail(t)
    \/ \E t \in TaskIds : TickOrderOk(t, Overlap)
    \/ Advance(Overlap)

SpecOverlap == InitStrategy /\ [][NextOverlap]_vars

\* The upstream call that the operation in slot t awaits returns, with an
\* answer or with a failure: the operation leaves that await.  (The first
\* disjunct is one such step, spelt out in full.)
Resumes(t) ==
    /\ tasks[t].pc # "idle"
    /\ \/ /\ tasks' = [tasks EXCEPT ![t] = Idle]
          /\ UNCHANGED <<config, stratOverrideEnabled, virtualBtc, virtualUsd,
                         recentOrders, lastBuyTimestamp, clock, response,
                         started, history>>
       \/ tasks'[t].pc # tasks[t].pc

(* The same operations where the upstream calls of the second slot always   *)
(* return, while those of the first slot, which the earlier operation       *)
(* holds, may hang for ever: fetch has no timeout.                          *)
SpecStall == InitStrategy /\ [][NextOverlap]_vars /\ WF_vars(Resumes(2))

----------------------------------------------------------------------------
(* Properties *)

\* This step ends an operation: its answer is the new response.
Answered == response'.op # response.op

\* This step leaves the ledger and the order log as they were.
Untouched == UNCHANGED <<virtualBtc, virtualUsd, recentOrders, history>>

Last(seq) == seq[Len(seq)]

RiskErrors ==
    {"usd must be > 0", "usd exceeds MAX_TRADE_USD", "symbol not allowed"}

\* C1: while the paper-mode flag is set, every live-order request, whatever
\* its pair, side and amount and also without a body, is answered 400
\* "paper mode enabled" in the step that receives it: no live order is ever
\* in flight, no brokerage or other network call is made, nothing is
\* appended to the order log and the ledger stays as it was.
PaperModeBlocksLive ==
    [][isPaper =>
         /\ \A t \in TaskIds : tasks'[t].kind # "live"
         /\ (Answered /\ response'.kind = "live") =>
               /\ response'.status = 400
               /\ response'.error = "paper mode enabled"
               /\ response'.calls = {}
               /\ Untouched]_vars

PaperModeBlocksLiveWitness ==
    /\ isPaper
    /\ response.kind = "live"
    /\ response.status = 400
    /\ response.error = "paper mode enabled"
    /\ response.risky

\* C2: with the paper-mode flag off, a live-order request whose pair is not
\* allow-listed, whose amount is <= 0 or whose amount is above the per-trade
\* cap is answered 400 with the violated rule in the step that receives it:
\* it never reaches placeLiveOrder, makes no network call, and leaves the
\* order log and the ledger as they were.
LiveRiskRejectedBeforeNetwork ==
    [][~isPaper =>
         /\ \A t \in TaskIds : tasks'[t].kind = "live" => ~tasks'[t].risky
         /\ (Answered /\ response'.kind = "live" /\ response'.risky) =>
               /\ response'.status = 400
               /\ response'.error \in RiskErrors
               /\ response'.calls = {}
               /\ Untouched]_vars

LiveRiskRejectedWitness ==
    /\ ~isPaper
    /\ response.kind = "live"
    /\ response.risky
    /\ response.status = 400
    /\ response.error = "usd exceeds MAX_TRADE_USD"
    /\ response.calls = {}

\* C3: a paper order request that breaks a risk rule (pair not allow-listed,
\* amount <= 0, amount above the cap) fails, and the ledger and the order
\* log are exactly as they were.
PaperRiskRejected ==
    [][(Answered /\ response'.kind = "paper" /\ response'.risky) =>
         /\ response'.status # 200
         /\ Untouched]_vars

\* This step ends the operation task t was running.
Ended(t) == tasks[t].pc # "idle" /\ response'.op = tasks[t].op

\* This step appends exactly entry e to the record of all orders, and e is
\* the newest entry of the order log.
Appends(e) ==
    /\ history' = Append(history, e)
    /\ Len(recentOrders') > 0
    /\ Last(recentOrders') = e

\* q is x rounded to six decimals: a multiple of 10^-6 within half of 10^-6
\* of x.
IsRounded6(q, x) ==
    /\ ~isNaN(q)
    /\ 1000000 % q[2] = 0
    /\ RLe(RSub(q, x), Rat(1, 2000000))
    /\ RLe(RSub(x, q), Rat(1, 2000000))

\* m is the smaller of x and y.
IsMin(m, x, y) == m \in {x, y} /\ RLe(m, x) /\ RLe(m, y)

\* C4: with ticks running one after another, a tick that sees the price at
\* or below the lower band while less than cooldownSeconds have passed since
\* lastBuyTimestamp ends as a cooldown skip and orders nothing; one that
\* sees it at lastBuyTimestamp + cooldownSeconds or later goes on to buy;
\* an executed strategy buy appends one buy and stamps lastBuyTimestamp with
\* its tick's time, so the stamps of two executed buys are at least
\* cooldownSeconds apart.
CooldownHolds ==
    [][/\ \A t \in TaskIds :
            /\ (tasks[t].pc = "tick_atr" /\ tasks'[t] # tasks[t]) =>
                  LET seen == IF Ended(t) THEN response' ELSE tasks'[t]
                      dip == RLe(seen.current, seen.lower)
                  IN  /\ (dip /\ clock - lastBuyTimestamp < 1800) =>
                            /\ Ended(t)
                            /\ response'.decision = "cooldown"
                            /\ Untouched
                            /\ UNCHANGED lastBuyTimestamp
                      /\ (dip /\ clock - lastBuyTimestamp >= 1800) =>
                            /\ tasks'[t].pc = "tick_buy"
                            /\ tasks'[t].nowSec = clock
            /\ (tasks[t].pc = "tick_buy" /\ Ended(t)
                    /\ response'.exec = "ok") =>
                  /\ Len(history') = Len(history) + 1
                  /\ Last(history').side = "buy"
                  /\ lastBuyTimestamp' = tasks[t].nowSec
       /\ lastBuyTimestamp' # lastBuyTimestamp =>
            /\ lastBuyTimestamp' - lastBuyTimestamp >= 1800
            /\ Answered
            /\ response'.decision = "buy"]_vars

CooldownHoldsWitness ==
    /\ response.kind = "tick"
    /\ response.decision = "buy"
    /\ started = 3
    /\ Len(history) = 2
    /\ history[1].side = "buy"
    /\ history[2].side = "buy"
    /\ history[2].time - history[1].time >= 1800
    /\ lastBuyTimestamp = StartTime + 1800

\* C5: an executed paper buy of usd at ticker price p raises virtualBtc by
\* exactly usd / p rounded to six decimals, lowers virtualUsd by exactly
\* usd, and appends an entry carrying the amount, the price and that
\* quantity (usd = 100 at p = 50000 gives qty 0.002).
PaperBuyFill ==
    [][\A t \in TaskIds :
         (/\ tasks[t].pc \in {"paper_ticker", "tick_buy"}
          /\ tasks[t].side = "buy"
          /\ Ended(t)
          /\ response'.exec = "ok") =>
            LET e == Last(history')
            IN  /\ Appends(e)
                /\ e.mode = "paper"
                /\ e.side = "buy"
                /\ e.product = tasks[t].product
                /\ e.usd = tasks[t].usd
                /\ IsRounded6(e.qty, RDiv(e.usd, e.price))
                /\ virtualBtc' = RAdd(virtualBtc, e.qty)
                /\ virtualUsd' = RSub(virtualUsd, e.usd)]_vars

PaperBuyFillWitness ==
    /\ response.kind = "paper"
    /\ response.exec = "ok"
    /\ Len(history) = 1
    /\ history[1].side = "buy"
    /\ history[1].usd = Num(100)
    /\ history[1].price = Num(50000)
    /\ history[1].qty = Rat(2, 1000)
    /\ virtualBtc = Rat(2, 1000)
    /\ virtualUsd = Num(-100)

\* C6: an executed paper sell of usd at ticker price p sells the smaller of
\* usd / p and virtualBtc: virtualBtc falls by that quantity and virtualUsd
\* rises by the quantity times p; when usd / p is more than is held, the
\* quantity is exactly what is held and virtualBtc becomes 0.
PaperSellFill ==
    [][\A t \in TaskIds :
         (/\ tasks[t].pc \in {"paper_ticker", "tick_sell"}
          /\ tasks[t].side = "sell"
          /\ Ended(t)
          /\ response'.exec = "ok") =>
            LET e == Last(history')
                targetQty == RDiv(e.usd, e.price)
            IN  /\ Appends(e)
                /\ e.mode = "paper"
                /\ e.side = "sell"
                /\ e.usd = tasks[t].usd
                /\ IsMin(e.qty, targetQty, virtualBtc)
                /\ virtualBtc' = RSub(virtualBtc, e.qty)
                /\ virtualUsd' = RAdd(virtualUsd, RMul(e.qty, e.price))
                /\ RLt(virtualBtc, targetQty) =>
                      /\ e.qty = virtualBtc
                      /\ virtualBtc' = Num(0)]_vars

PaperSellFillWitness ==
    /\ response.kind = "paper"
    /\ response.exec = "ok"
    /\ Len(history) = 2
    /\ history[1].side = "buy"
    /\ history[2].side = "sell"
    /\ history[2].qty = history[1].qty
    /\ RLt(Num(0), history[2].qty)
    /\ RLt(history[2].qty, RDiv(history[2].usd, history[2].price))
    /\ virtualBtc = Num(0)

\* C7: virtualBtc is never negative.
BaseBalanceNonNegative == RLe(Num(0), virtualBtc)

\* C8: the order log never holds more than 50 entries and always equals the
\* last min(n, 50) of the n orders recorded so far, in the order they were
\* recorded; after 51 insertions its first entry is the order recorded
\* second.
LogIsBoundedFifo ==
    LET n == Len(history)
        k == IF n < 50 THEN n ELSE 50
    IN  /\ Len(recentOrders) <= 50
        /\ recentOrders = SubSeq(history, n - k + 1, n)
        /\ n = 51 => recentOrders[1] = history[2]

LogIsBoundedFifoWitness ==
    /\ Len(history) = 51
    /\ Len(recentOrders) = 50
    /\ history[1].usd = Num(1)
    /\ recentOrders[1].usd = Num(2)
    /\ recentOrders[50].usd = Num(51)

\* C9: a step that ends an order execution successfully (paper, strategy or
\* live) appends exactly one entry to the order log; a step that ends one in
\* failure (price feed, unsupported side, missing credentials, brokerage
\* error) appends nothing and leaves the ledger as it was; and no other step
\* changes the log or the ledger.
ExecutionAppendsOne ==
    [][/\ (Answered /\ response'.exec = "ok") => Appends(Last(history'))
       /\ (Answered /\ response'.exec = "failed") => Untouched
       /\ ~(Answered /\ response'.exec = "ok") => Untouched]_vars

ExecutionAppendsOneWitness ==
    /\ response.kind = "live"
    /\ response.exec = "failed"
    /\ response.error = "Coinbase error"
    /\ "brokerage" \in response.calls
    /\ history = <<>>
    /\ recentOrders = <<>>

\* C10: no step of a live-order request changes virtualBtc or virtualUsd,
\* whether the request is rejected, fails at the brokerage or succeeds; the
\* ledger changes only in a step that ends a paper or strategy execution and
\* appends a paper entry.
LiveNeverTouchesLedger ==
    [][/\ \A t \in TaskIds :
            (tasks[t].kind = "live" /\ tasks'[t] # tasks[t]) =>
               UNCHANGED <<virtualBtc, virtualUsd>>
       /\ (Answered /\ response'.kind = "live") =>
            UNCHANGED <<virtualBtc, virtualUsd>>
       /\ <<virtualBtc, virtualUsd>>' # <<virtualBtc, virtualUsd>> =>
            /\ Answered
            /\ response'.kind \in {"paper", "tick"}
            /\ Appends(Last(history'))
            /\ Last(history').mode = "paper"]_vars

LiveNeverTouchesLedgerWitness ==
    /\ response.kind = "live"
    /\ response.status = 200
    /\ Len(history) = 1
    /\ history[1].mode = "live"
    /\ virtualBtc = Num(0)
    /\ virtualUsd = Num(0)

\* The tick whose record is r saw the price at or below its lower band.
Dip(r) == RLe(r.current, r.lower)

\* C11: one tick produces at most one order.  A step of a tick that appends
\* an order appends exactly one and ends the tick; after its buy attempt the
\* tick returns without evaluating the sell rule; a sell is decided only
\* when the buy rule did not fire; and a tick that bought or skipped its buy
\* for the cooldown appended no sell.
OneOrderPerTick ==
    [][\A t \in TaskIds :
         (tasks[t].kind = "tick" /\ tasks'[t] # tasks[t]) =>
            /\ history' # history =>
                  (Ended(t) /\ Appends(Last(history')))
            /\ tasks[t].pc \in {"tick_buy", "tick_sell"} => Ended(t)
            /\ tasks'[t].pc = "tick_sell" =>
                  (tasks[t].pc = "tick_atr" /\ ~Dip(tasks'[t]))
            /\ (Ended(t) /\ response'.decision \in {"buy", "cooldown"}) =>
                  (history' = history \/ Last(history').side = "buy")
            /\ (Ended(t) /\ response'.decision = "cooldown") => Untouched]_vars

OneOrderPerTickWitness ==
    /\ response.kind = "tick"
    /\ response.decision = "sell"
    /\ started = 2
    /\ Len(history) = 2
    /\ history[1].side = "buy"
    /\ history[2].side = "sell"

\* This step ends a tick of task t that directly follows another tick, with
\* no operation in between, and read the same current price, reference
\* price, ATR and time as that tick did; both ticks reached their decision
\* and the first one did not fail.
Repeated(t) ==
    /\ Ended(t)
    /\ tasks[t].kind = "tick"
    /\ response.kind = "tick"
    /\ tasks[t].op = response.op + 1
    /\ response.decision \in {"buy", "sell", "cooldown", "no_action"}
    /\ response'.decision \in {"buy", "sell", "cooldown", "no_action"}
    /\ response'.current = response.current
    /\ response'.past = response.past
    /\ response'.atr = response.atr
    /\ response'.nowSec = response.nowSec
    /\ clock = response.nowSec

\* C12 as stated: with unchanged price data, configuration and time, a
\* second tick in succession leaves the ledger, the order log and
\* lastBuyTimestamp as the first tick left them, in the buy region and in
\* the sell region alike.
TickIdempotent ==
    [][\A t \in TaskIds :
         Repeated(t) => (Untouched /\ UNCHANGED lastBuyTimestamp)]_vars

\* C12 as amended: the same, unless the first tick sold; a tick that follows
\* a tick that bought is a cooldown skip, one that follows a skip or a tick
\* without action repeats it.
TickIdempotentUnlessSold ==
    [][\A t \in TaskIds :
         (Repeated(t) /\ response.decision # "sell") =>
            /\ Untouched
            /\ UNCHANGED lastBuyTimestamp
            /\ response'.decision =
                  IF response.decision = "buy" THEN "cooldown"
                  ELSE response.decision]_vars

TickIdempotentUnlessSoldWitness ==
    /\ response.kind = "tick"
    /\ response.decision = "cooldown"
    /\ started = 2
    /\ Len(history) = 1
    /\ history[1].side = "buy"
    /\ lastBuyTimestamp = response.nowSec
    /\ clock = response.nowSec

\* The override when one has been set, the configured default otherwise.
EffectiveEnabled ==
    IF stratOverrideEnabled = "null" THEN stratEnvEnabled
    ELSE stratOverrideEnabled = "true"

\* This step starts a tick.
TickStarted ==
    /\ started' = started + 1
    /\ \/ \E t \in TaskIds :
             tasks'[t].op = started' /\ tasks'[t].kind = "tick"
       \/ response'.op = started' /\ response'.kind = "tick"

Records == {tasks[t] : t \in TaskIds} \cup {response}

\* The tick of record r computed a band and came to its decision.
HasBand(r) ==
    /\ r.kind = "tick"
    /\ \/ r.pc \in {"tick_buy", "tick_sell"}
       \/ r.decision \in {"buy", "sell", "cooldown", "no_action"}
       \/ r.exec = "failed"

\* C14: a tick goes past the check of its reference price, to the ATR
\* fetch, the band and the decision, only with a finite reference price
\* above zero.
ReferenceValidated ==
    \A r \in Records :
       (r.kind = "tick" /\ (r.pc = "tick_atr" \/ HasBand(r))) =>
          RLt(Num(0), r.past)

\* C15: a tick that sees the price at or below its lower band with the
\* cooldown elapsed (or no buy before) goes on to buy BuyUsd = 5 of BTC-USD;
\* when that buy executes it appends exactly one paper buy of 5 for BTC-USD
\* and sets lastBuyTimestamp to the time the tick read.  With reference
\* 50000 and ATR 1000 (2 percent) the band is 2.4 percent, lower is 48800
\* and upper 51200.
BuyRule ==
    [][\A t \in TaskIds :
         /\ (tasks[t].pc = "tick_atr" /\ tasks'[t] # tasks[t]) =>
               LET seen == IF Ended(t) THEN response' ELSE tasks'[t]
               IN  /\ (seen.past = Num(50000) /\ seen.atr = Num(1000)) =>
                         /\ seen.band = Rat(24, 10)
                         /\ seen.lower = Num(48800)
                         /\ seen.upper = Num(51200)
                         /\ RLe(Num(48700), seen.lower)
                   /\ (Dip(seen) /\ clock - lastBuyTimestamp >= 1800) =>
                         /\ tasks'[t].pc = "tick_buy"
                         /\ tasks'[t].side = "buy"
                         /\ tasks'[t].usd = Num(5)
                         /\ tasks'[t].product = "BTC-USD"
                         /\ tasks'[t].nowSec = clock
         /\ (tasks[t].pc = "tick_buy" /\ Ended(t)
                 /\ response'.exec = "ok") =>
               LET e == Last(history')
               IN  /\ Appends(e)
                   /\ e.mode = "paper"
                   /\ e.side = "buy"
                   /\ e.usd = Num(5)
                   /\ e.product = "BTC-USD"
                   /\ response'.decision = "buy"
                   /\ lastBuyTimestamp' = tasks[t].nowSec]_vars

BuyRuleWitness ==
    /\ response.kind = "tick"
    /\ response.decision = "buy"
    /\ response.past = Num(50000)
    /\ response.atr = Num(1000)
    /\ response.lower = Num(48800)
    /\ response.current = Num(45000)
    /\ Len(history) = 1
    /\ history[1].side = "buy"
    /\ history[1].usd = Num(5)
    /\ lastBuyTimestamp = response.nowSec

\* C16: the band percent a tick computes is ATR / reference * 100 * 1.2
\* when that lies within [1, 5], 1 when it is below and 5 when it is above,
\* and so always lies within [1, 5].
BandClamped ==
    \A r \in Records :
       HasBand(r) =>
          LET raw == RMul(RMul(RDiv(r.atr, r.past), Num(100)), Rat(12, 10))
          IN  /\ r.band = IF RLt(raw, Num(1)) THEN Num(1)
                          ELSE IF RLt(Num(5), raw) THEN Num(5)
                          ELSE raw
              /\ RLe(Num(1), r.band)
              /\ RLe(r.band, Num(5))

BandClampedWitness ==
    /\ HasBand(response)
    /\ response.past = Num(50000)
    /\ response.atr = Num(5000)
    /\ response.band = Num(5)
    /\ response.upper = Num(52500)

\* C17: for every band a tick computes, lower <= reference <= upper.
BandContainsReference ==
    \A r \in Records :
       HasBand(r) => (RLe(r.lower, r.past) /\ RLe(r.past, r.upper))

\* C18: a tick decides to sell only when it did not see the price at or
\* below its lower band, sell is enabled, virtualBtc is above the dust
\* threshold 0.00001 and the price is at least upper * (1 + 0.5 / 100); and
\* a tick appends a sell only after it so decided.
SellRule ==
    [][\A t \in TaskIds :
         /\ tasks'[t].pc = "tick_sell" =>
               \/ tasks[t].pc = "tick_sell"
               \/ /\ tasks[t].pc = "tick_atr"
                  /\ ~Dip(tasks'[t])
                  /\ sellEnabled
                  /\ RLt(Rat(1, 100000), virtualBtc)
                  /\ RLe(RMul(tasks'[t].upper, Rat(1005, 1000)),
                         tasks'[t].current)
         /\ (/\ tasks[t].kind = "tick"
             /\ tasks'[t] # tasks[t]
             /\ history' # history
             /\ Last(history').side = "sell") =>
               tasks[t].pc = "tick_sell"]_vars

SellRuleWitness ==
    /\ sellEnabled
    /\ maxSellFrac = Rat(2, 10)
    /\ response.kind = "tick"
    /\ response.decision = "sell"
    /\ response.upper = Num(51200)
    /\ response.current = Num(64000)
    /\ Len(history) = 2
    /\ history[2].side = "sell"
    /\ RLt(Num(0), history[2].qty)

\* C19: a tick whose sell conditions hold but whose sell amount, virtualBtc
\* times the sell fraction times the price, is <= 0 does not go on to the
\* order: nothing is appended and the ledger stays as it was.
EmptySellSkipped ==
    [][\A t \in TaskIds :
         /\ (tasks[t].pc = "tick_atr" /\ tasks'[t].pc = "tick_sell") =>
               RLt(Num(0), tasks'[t].usd)
         /\ (tasks[t].pc = "tick_sell" /\ ~RLt(Num(0), tasks[t].usd)
                 /\ tasks'[t] # tasks[t]) =>
               Untouched]_vars

\* C20: a tick always ends normally, whatever failed inside it (the manual
\* caller is answered 200); a tick that ends in its catch block, and in
\* particular one whose buy execution failed, leaves lastBuyTimestamp, the
\* ledger and the order log unchanged.
TickFailureContained ==
    [][\A t \in TaskIds :
         (tasks[t].kind = "tick" /\ Ended(t)) =>
            /\ response'.status = 200
            /\ response'.error = ""
            /\ response'.decision = "error" =>
                  (Untouched /\ UNCHANGED lastBuyTimestamp)
            /\ (tasks[t].pc = "tick_buy" /\ response'.exec = "failed") =>
                  /\ response'.decision = "error"
                  /\ Untouched
                  /\ UNCHANGED lastBuyTimestamp]_vars

TickFailureContainedWitness ==
    /\ response.kind = "tick"
    /\ response.exec = "failed"
    /\ response.decision = "error"
    /\ response.status = 200
    /\ Dip(response)
    /\ lastBuyTimestamp = 0
    /\ history = <<>>

\* C21: without brokerage key material a live order to buy or sell that
\* passed the route's checks is never in flight: it has ended with status
\* 500 "Missing Coinbase API credentials" having made no network call
\* (neither a price fetch nor a brokerage request), and no live entry is in
\* the order log.
MissingKeysFailFast ==
    ~credsPresent =>
       /\ \A r \in Records :
             (/\ r.kind = "live"
              /\ r.status # 400
              /\ ToUpperCase(r.side) \in {"BUY", "SELL"}) =>
                /\ r.pc = "done"
                /\ r.status = 500
                /\ r.error = "Missing Coinbase API credentials"
                /\ r.calls = {}
       /\ \A i \in 1..Len(history) : history[i].mode # "live"

\* C22: every brokerage request goes out with a token built in the step
\* that sends it: its not-before is the time of that step, its expiry is
\* not-before + 120 seconds exactly, its uri names the POST to the orders
\* path, and no other request, in flight or answered last, carries the same
\* token; an operation that sent no brokerage request has no token.
TokenFreshPerRequest ==
    [][/\ \A t \in TaskIds :
            (tasks'[t].pc = "live_brokerage"
                 /\ tasks[t].pc # "live_brokerage") =>
               LET tok == tasks'[t].token
               IN  /\ tok.nbf = clock
                   /\ tok.exp = tok.nbf + 120
                   /\ tok.exp - tok.nbf = 120
                   /\ tok.uri = <<"POST", "api.coinbase.com",
                                  "/api/v3/brokerage/orders">>
                   /\ \A r \in Records :
                         r.op # tasks'[t].op => r.token # tok
       /\ \A t \in TaskIds :
            tasks[t].pc = "live_brokerage" =>
               (tasks'[t].pc = "live_brokerage" =>
                   tasks'[t].token = tasks[t].token)
       /\ \A r \in Records :
            ("brokerage" \in r.calls) <=> (r.token # NoToken)]_vars

TokenFreshPerRequestWitness ==
    /\ response.kind = "live"
    /\ response.exec = "ok"
    /\ response.token.exp = response.token.nbf + 120
    /\ \E t \in TaskIds :
          /\ tasks[t].pc = "live_brokerage"
          /\ tasks[t].token.nbf = response.token.nbf + TimerPeriodSec
          /\ tasks[t].token.exp = response.token.exp + TimerPeriodSec
          /\ tasks[t].token.nonce # response.token.nonce

\* C23: a tick waiting for the ATR never ends in its catch block; when the
\* ATR lookup fails or has too few candles the tick goes on with ATR 0, so
\* with band percent 1 (the minimum), lower = reference * 0.99 and upper =
\* reference * 1.01, and decides by the buy rule and then the sell rule
\* against that band.
AtrFailureDegrades ==
    [][\A t \in TaskIds :
         (tasks[t].pc = "tick_atr" /\ tasks'[t] # tasks[t]) =>
            LET seen == IF Ended(t) THEN response' ELSE tasks'[t]
            IN  /\ seen.decision # "error"
                /\ seen.atr = Num(0) =>
                     /\ seen.band = Num(1)
                     /\ seen.lower = RMul(seen.past, Rat(99, 100))
                     /\ seen.upper = RMul(seen.past, Rat(101, 100))
                     /\ IF RLe(seen.current, seen.lower)
                        THEN IF clock - lastBuyTimestamp < 1800
                             THEN seen.decision = "cooldown"
                             ELSE seen.pc = "tick_buy"
                        ELSE IF /\ sellEnabled
                                /\ RLt(Rat(1, 100000), virtualBtc)
                                /\ RLe(RMul(seen.upper, Rat(1005, 1000)),
                                       seen.current)
                        THEN seen.pc = "tick_sell"
                        ELSE seen.decision = "no_action"]_vars

AtrFailureDegradesWitness ==
    /\ response.kind = "tick"
    /\ response.atr = Num(0)
    /\ response.past = Num(50000)
    /\ response.band = Num(1)
    /\ response.lower = Num(49500)
    /\ response.current = Num(45000)
    /\ response.decision = "buy"
    /\ Len(history) = 1

\* C24: at most one tick at a time is past the cooldown check and waiting
\* for the price fetch of its buy, and a tick's buy executes only when the
\* cooldown has elapsed since the buy before it: overlapping ticks that
\* both see the price at or below the lower band execute one buy per
\* cooldown window.
OverlappingTicksOneBuy ==
    [][/\ Cardinality({t \in TaskIds : tasks'[t].pc = "tick_buy"}) <= 1
       /\ \A t \in TaskIds :
            (tasks[t].pc = "tick_buy" /\ Ended(t)
                 /\ response'.exec = "ok") =>
               tasks[t].nowSec - lastBuyTimestamp >= 1800]_vars

\* The base quantity and the quote amount the paper orders of a log add up
\* to: buys add their quantity and take their amount, sells take their
\* quantity and add quantity * price.
RECURSIVE BaseOf(_)
BaseOf(log) ==
    IF log = <<>> THEN Num(0)
    ELSE LET e == Last(log)
             rest == BaseOf(SubSeq(log, 1, Len(log) - 1))
         IN  IF e.mode # "paper" THEN rest
             ELSE IF e.side = "buy" THEN RAdd(rest, e.qty)
             ELSE RSub(rest, e.qty)

RECURSIVE QuoteOf(_)
QuoteOf(log) ==
    IF log = <<>> THEN Num(0)
    ELSE LET e == Last(log)
             rest == QuoteOf(SubSeq(log, 1, Len(log) - 1))
         IN  IF e.mode # "paper" THEN rest
             ELSE IF e.side = "buy" THEN RSub(rest, e.usd)
             ELSE RAdd(rest, RMul(e.qty, e.price))

\* C25: in every state, so in every state an operation resuming from an
\* await can observe, the ledger is exactly what the paper orders recorded
\* so far (evicted ones included) add up to, and the order log is the tail
\* of those records: no state has a ledger update without its log entry or
\* a log entry without its ledger update.
LedgerMatchesLog ==
    /\ virtualBtc = BaseOf(history)
    /\ virtualUsd = QuoteOf(history)
    /\ Len(recentOrders) <= Len(history)
    /\ recentOrders =
          SubSeq(history, Len(history) - Len(recentOrders) + 1, Len(history))

LedgerMatchesLogWitness ==
    /\ Len(history) = 1
    /\ history[1].side = "buy"
    /\ RLt(Num(0), virtualBtc)
    /\ RLt(virtualUsd, Num(0))
    /\ \E t \in TaskIds :
          /\ tasks[t].pc = "tick_sell"
          /\ tasks[t].usd = RMul(RMul(virtualBtc, Rat(2, 10)), tasks[t].current)

\* C26: the sell a tick executes is for at most the quantity the tick
\* decided on, the sell fraction of the balance it observed (its amount
\* divided by the price it observed), whatever price the execution's own
\* ticker fetch returns and whatever ran in between.
SellFractionRespected ==
    [][\A t \in TaskIds :
         (tasks[t].pc = "tick_sell" /\ Ended(t)
              /\ response'.exec = "ok") =>
            LET e == Last(history')
            IN  /\ Appends(e)
                /\ e.side = "sell"
                /\ RLe(e.qty, RDiv(tasks[t].usd, tasks[t].current))]_vars

\* C27: lastBuyTimestamp never decreases, and a step changes it only by
\* ending a tick whose buy executed, to the time that tick read: manual
\* paper orders, live orders, a tick's sell, ticks skipped by the cooldown
\* or disabled, failed ticks and toggle changes leave it as it was.
CooldownOnlyByBuy ==
    [][/\ lastBuyTimestamp' >= lastBuyTimestamp
       /\ lastBuyTimestamp' # lastBuyTimestamp =>
             \E t \in TaskIds :
                /\ tasks[t].pc = "tick_buy"
                /\ Ended(t)
                /\ response'.exec = "ok"
                /\ response'.decision = "buy"
                /\ lastBuyTimestamp' = tasks[t].nowSec]_vars

\* A tick and every admin request may start in slot t now.
CanStart(t) ==
    /\ ENABLED StrategyTick(t, Overlap)
    /\ \A body \in Overlap.paperBodies : ENABLED PaperOrderRoute(t, body, Overlap)

\* C28: an operation whose upstream calls return always ends, a tick in
\* particular, also while the operation started before it hangs on a call
\* that never returns; and while an operation is in flight in one slot the
\* next tick and every admin request can start in the other.
StalledTickBlocksNothing ==
    /\ \A k \in {"tick", "paper"} :
          (tasks[2].kind = k) ~> (tasks[2].pc = "idle")
    /\ [](/\ tasks[1].pc # "idle"
          /\ tasks[2].pc = "idle"
          /\ started < MaxOverlapOps
          => CanStart(2))
    /\ WF_vars(Resumes(1)) =>
          ((tasks[1].kind = "tick") ~> (tasks[1].pc = "idle"))

StalledTickBlocksNothingWitness ==
    /\ tasks[1].kind = "tick"
    /\ tasks[1].op = 1
    /\ tasks[1].pc = "tick_ticker"
    /\ tasks[2].pc = "idle"
    /\ response.op = 2
    /\ response.kind = "tick"
    /\ response.decision = "buy"
    /\ Len(history) = 1

\* An operation of kind k acts in this step: it starts, goes on or ends.
Acts(k) ==
    \/ \E t \in TaskIds : tasks[t].kind = k /\ tasks'[t] # tasks[t]
    \/ \E t \in TaskIds : tasks'[t].kind = k /\ tasks'[t] # tasks[t]
    \/ response' # response /\ response'.kind = k

\* C29: the strategy tick never submits an order to the brokerage.  Whatever
\* the paper-mode flag, a tick never makes a brokerage call and never builds
\* a token, and every order a tick step records is a single paper order with
\* mode "paper"; a brokerage call is only ever made by a live-order request,
\* and an order with mode "live" is only ever recorded by one.
TickNeverGoesLive ==
    [][/\ \A r \in Records \cup {tasks'[t] : t \in TaskIds} \cup {response'} :
            r.kind = "tick" =>
               /\ "brokerage" \notin r.calls
               /\ r.token = NoToken
               /\ r.pc \notin {"live_ticker", "live_brokerage"}
       /\ \A r \in {tasks'[t] : t \in TaskIds} \cup {response'} :
            "brokerage" \in r.calls => r.kind = "live"
       /\ Acts("tick") /\ history' # history =>
            /\ Len(history') = Len(history) + 1
            /\ SubSeq(history', 1, Len(history)) = history
            /\ history'[Len(history')].mode = "paper"
            /\ recentOrders'[Len(recentOrders')] = history'[Len(history')]
       /\ \A i \in (Len(history) + 1) .. Len(history') :
            history'[i].mode = "live" => Acts("live") /\ ~Acts("tick")
       /\ \A i \in (Len(history) + 1) .. Len(history') :
            history'[i].mode \in {"paper", "live"}]_vars

\* Paper mode off and credentials present, and the tick's buy was still
\* booked as a paper order without any brokerage call.
TickNeverGoesLiveWitness ==
    /\ ~isPaper
    /\ credsPresent
    /\ response.kind = "tick"
    /\ response.exec = "ok"
    /\ response.decision = "buy"
    /\ "brokerage" \notin response.calls
    /\ response.token = NoToken
    /\ Len(history) > 0
    /\ history[Len(history)].mode = "paper"
    /\ history[Len(history)].side = "buy"

====
